---- MODULE Spec2Model ----
(***************************************************************************)
(* Two presentation components of the dashboard:                           *)
(*   ServiceCard  - a clickable card for one service: redirect target,     *)
(*                  click interception, interface resolution, refetch.     *)
(*   SystemCheck  - the onboarding screen: Docker/Daemon/Memory rows, the  *)
(*                  "Check Again" button and the gated Next button.        *)
(* Each component function is modelled as an operator from its inputs      *)
(* (props and hook results) to what it renders; each event handler is an   *)
(* action.  A JavaScript value that may be undefined is a sequence of      *)
(* length at most one: None is undefined, Some(v) is the value v.          *)
(***************************************************************************)
EXTENDS Integers, Sequences, FiniteSets, TLC

\* ---------------------------------------------------------------- bounds
MaxDeclared == 2      \* longest service.interfaces list drawn
MaxCollection == 3    \* longest interfaces collection drawn
MaxRefresh == 3       \* refetch invocations followed
MaxInFlight == 2      \* probes of one kind in flight at once
MaxMemoryExp == 4     \* memory_limit drawn from 0 and 2^0 .. 2^MaxMemoryExp
MaxReentries == 2     \* entries into Ready counted

\* ------------------------------------------------------ optional values
None == <<>>
Some(v) == <<v>>

\* a ?? b
NullishOr(o, d) == IF o = None THEN d ELSE o[1]

SeqsUpTo(S, n) == UNION {[1..k -> S] : k \in 0..n}

\* ------------------------------------------------------------ input sets
ServiceIds == {"svc1", "svc2"}
ServiceTypes == {None, Some(""), Some("docker"), Some("binary")}
Statuses == {"coming_soon", "running", "stopped"}
InterfaceIds == {"a", "b", "c"}
Interface(i) == [id |-> i]
Collection(ids) == [k \in 1..Len(ids) |-> Interface(ids[k])]

SERVICES_KEY == "SERVICES_KEY"
SERVICE_KEY == "SERVICE_KEY"

VARIABLES
  \* ServiceCard
  service,             \* the service prop: [id, serviceType, interfaces]
  status,              \* getServiceStatus(service) of the latest render
  interfaces,          \* useInterfaces().data of the latest render
  isWarningModalOpen,  \* useWarningModal's flag
  refetchServiceId,    \* the serviceId the memoized refetch closed over
  card,                \* what the latest render produced
  queryCalls,          \* calls made on the query client, in order
  lastClick,           \* outcome of the latest click on the card's link
  refreshCount,        \* observer: invocations of refetch so far
  \* SystemCheck
  isDockerRunning,     \* prop
  isServerRunning,     \* prop
  isLoading,           \* useSystemStats().isLoading
  response,            \* useSystemStats().data
  screen,              \* what the latest render produced
  dockerProbes,        \* Docker probes in flight
  serverProbes,        \* Daemon probes in flight
  readyEntries,        \* observer: times the gate entered Ready
  \* both
  event                \* the latest step taken

cardVars == <<service, status, interfaces, isWarningModalOpen, refetchServiceId,
              card, queryCalls, lastClick, refreshCount>>
checkVars == <<isDockerRunning, isServerRunning, isLoading, response, screen,
               dockerProbes, serverProbes, readyEntries>>
vars == <<cardVars, checkVars, event>>

\* ============================================================ ServiceCard

\* Accessibility Gate: coming_soon is not accessible, every other status is.
checkIfAccessible(st) == st # "coming_soon"

\* the mutant of redirectLink that defaults with || : an empty serviceType
\* is replaced by "docker" too
redirectLinkOr(svc, st) ==
  IF st = "coming_soon"
    THEN "/"
    ELSE "/services/" \o svc.id \o "/"
           \o (IF svc.serviceType = None \/ svc.serviceType = Some("")
                 THEN "docker" ELSE svc.serviceType[1])
           \o "/detail"

\* the mutant of redirectLink without the coming_soon branch
redirectLinkDetailOnly(svc, st) ==
  "/services/" \o svc.id \o "/" \o NullishOr(svc.serviceType, "docker") \o "/detail"

redirectLink(svc, st) ==
  IF st = "coming_soon"
    THEN "/"
    ELSE "/services/" \o svc.id \o "/" \o NullishOr(svc.serviceType, "docker")
           \o "/detail"

\* service.interfaces?.includes(id): undefined (falsy) without a list
Includes(decl, id) ==
  /\ decl # None
  /\ \E k \in 1..Len(decl[1]) : decl[1][k] = id

RECURSIVE Filter(_, _)
Filter(coll, decl) ==
  IF coll = <<>>
    THEN <<>>
    ELSE (IF Includes(decl, Head(coll).id) THEN <<Head(coll)>> ELSE <<>>)
           \o Filter(Tail(coll), decl)

RECURSIVE FirstWithId(_, _)
FirstWithId(coll, id) ==
  IF coll = <<>> THEN <<>>
  ELSE IF Head(coll).id = id THEN <<Head(coll)>>
  ELSE FirstWithId(Tail(coll), id)

RECURSIVE LookupEach(_, _)
LookupEach(ids, coll) ==
  IF ids = <<>> THEN <<>>
  ELSE FirstWithId(coll, Head(ids)) \o LookupEach(Tail(ids), coll)

\* the mutant of filterInterfaces that walks the service's list and looks
\* each id up in the collection: the result follows the service's order
filterInterfacesByService(data, svc) ==
  IF data = None \/ svc.interfaces = None
    THEN <<>>
    ELSE LookupEach(svc.interfaces[1], data[1])

\* interfaces?.filter((app) => service.interfaces?.includes(app.id)) ?? []
filterInterfaces(data, svc) ==
  IF data = None THEN <<>> ELSE Filter(data[1], svc.interfaces)

\* one render of the component
ServiceCard(svc, st, data) ==
  [isAccessible |-> checkIfAccessible(st),
   to           |-> redirectLink(svc, st),
   interfaces   |-> filterInterfaces(data, svc)]

\* useWarningModal: open suppresses the event's default and raises the flag
openWarningModal(open) == [defaultPrevented |-> TRUE, isWarningModalOpen |-> TRUE]
closeWarningModal(open) == FALSE

\* the mutant of onClick that lost its guard: every click opens the warning
onClickUnguarded(accessible, open) == openWarningModal(open)

\* (e) => !isAccessible && openWarningModal(e)
onClick(accessible, open) ==
  IF ~accessible
    THEN openWarningModal(open)
    ELSE [defaultPrevented |-> FALSE, isWarningModalOpen |-> open]

RefetchCall == [op |-> "refetchQueries", queryKey |-> <<SERVICES_KEY>>]
InvalidateCall(id) == [op |-> "invalidateQueries", queryKey |-> <<SERVICE_KEY, id>>]

\* the mutant of refetch that only refetches the collection
refetchCollectionOnly(calls, id) == Append(calls, RefetchCall)

\* the body of the memoized callback, with the serviceId it closed over
refetch(calls, id) == Append(Append(calls, RefetchCall), InvalidateCall(id))

Services(declared) ==
  [id : ServiceIds, serviceType : ServiceTypes, interfaces : declared]

\* the first render: the callback is memoized with this render's serviceId
Mount(svc, st, data) ==
  /\ service = svc
  /\ status = st
  /\ interfaces = data
  /\ isWarningModalOpen = FALSE
  /\ refetchServiceId = svc.id
  /\ card = ServiceCard(svc, st, data)
  /\ queryCalls = <<>>
  /\ lastClick = [defaultPrevented |-> FALSE, navigated |-> None]
  /\ refreshCount = 0

\* a later render: useCallback(..., []) keeps the first render's callback
Rerender(svc, st, data) ==
  /\ service' = svc
  /\ status' = st
  /\ interfaces' = data
  /\ card' = ServiceCard(svc, st, data)
  /\ event' = "render"
  /\ UNCHANGED <<isWarningModalOpen, refetchServiceId, queryCalls, lastClick,
                 refreshCount>>
  /\ UNCHANGED checkVars

\* a click on the Link: the handler runs, then the Link navigates to its
\* target unless the handler suppressed the default
Click ==
  LET r == onClick(card.isAccessible, isWarningModalOpen) IN
  /\ isWarningModalOpen' = r.isWarningModalOpen
  /\ lastClick' = [defaultPrevented |-> r.defaultPrevented,
                   navigated |-> IF r.defaultPrevented THEN None ELSE Some(card.to)]
  /\ event' = "click"
  /\ UNCHANGED <<service, status, interfaces, refetchServiceId, card, queryCalls,
                 refreshCount>>
  /\ UNCHANGED checkVars

\* ServiceActions closes the warning
CloseWarningModal ==
  /\ isWarningModalOpen' = closeWarningModal(isWarningModalOpen)
  /\ event' = "close"
  /\ UNCHANGED <<service, status, interfaces, refetchServiceId, card, queryCalls,
                 lastClick, refreshCount>>
  /\ UNCHANGED checkVars

\* ServiceActions invokes the refetch prop
Refetch ==
  /\ refreshCount < MaxRefresh
  /\ queryCalls' = refetch(queryCalls, refetchServiceId)
  /\ refreshCount' = refreshCount + 1
  /\ event' = "refetch"
  /\ UNCHANGED <<service, status, interfaces, isWarningModalOpen, refetchServiceId,
                 card, lastClick>>
  /\ UNCHANGED checkVars

\* ============================================================ SystemCheck

\* a value is truthy in a condition: undefined and false are not
Truthy(o) == o = Some(TRUE)

Digits == <<"0", "1", "2", "3", "4", "5", "6", "7", "8", "9">>

\* `${n}` of a non-negative integer
RECURSIVE NumberToString(_)
NumberToString(n) ==
  IF n < 10
    THEN Digits[n + 1]
    ELSE NumberToString(n \div 10) \o Digits[(n % 10) + 1]

\* response?.data?.memory_limit
MemoryLimitOf(resp) ==
  IF resp = None THEN None
  ELSE IF resp[1].data = None THEN None
  ELSE resp[1].data[1].memory_limit

\* the mutant of memoryLimit that tests for undefined instead of truthiness
memoryLimitIfDefined(resp) ==
  IF MemoryLimitOf(resp) # None
    THEN NumberToString(MemoryLimitOf(resp)[1]) \o "GiB"
    ELSE ""

\* response?.data?.memory_limit ? `${response?.data?.memory_limit}GiB` : ""
memoryLimit(resp) ==
  IF MemoryLimitOf(resp) # None /\ MemoryLimitOf(resp)[1] # 0
    THEN NumberToString(MemoryLimitOf(resp)[1]) \o "GiB"
    ELSE ""

\* the mutant of SystemCheck whose Next also waits for the memory probe
SystemCheckMemoryGated(docker, server, loading, resp) ==
  [docker |-> [isRunning |-> docker,
               status |-> IF Truthy(docker) THEN "Found" ELSE "Not Found"],
   daemon |-> [isRunning |-> server,
               status |-> IF Truthy(server) THEN "Running" ELSE "Not Running"],
   memory |-> [isLoading |-> loading, isRunning |-> FALSE,
               status |-> memoryLimit(resp)],
   nextDisabled |-> ~(Truthy(docker) /\ Truthy(server)) \/ loading
                      \/ memoryLimit(resp) = ""]

\* the mutant of SystemCheck whose Next needs only one of the two
SystemCheckEither(docker, server, loading, resp) ==
  [docker |-> [isRunning |-> docker,
               status |-> IF Truthy(docker) THEN "Found" ELSE "Not Found"],
   daemon |-> [isRunning |-> server,
               status |-> IF Truthy(server) THEN "Running" ELSE "Not Running"],
   memory |-> [isLoading |-> loading, isRunning |-> FALSE,
               status |-> memoryLimit(resp)],
   nextDisabled |-> ~(Truthy(docker) \/ Truthy(server))]

\* the mutant of SystemCheck whose Daemon row reads the Docker prop
SystemCheckDaemonFromDocker(docker, server, loading, resp) ==
  [docker |-> [isRunning |-> docker,
               status |-> IF Truthy(docker) THEN "Found" ELSE "Not Found"],
   daemon |-> [isRunning |-> docker,
               status |-> IF Truthy(docker) THEN "Running" ELSE "Not Running"],
   memory |-> [isLoading |-> loading, isRunning |-> FALSE,
               status |-> memoryLimit(resp)],
   nextDisabled |-> ~(Truthy(docker) /\ Truthy(server))]

\* one render of the component
SystemCheck(docker, server, loading, resp) ==
  [docker |-> [isRunning |-> docker,
               status |-> IF Truthy(docker) THEN "Found" ELSE "Not Found"],
   daemon |-> [isRunning |-> server,
               status |-> IF Truthy(server) THEN "Running" ELSE "Not Running"],
   memory |-> [isLoading |-> loading, isRunning |-> FALSE,
               status |-> memoryLimit(resp)],
   nextDisabled |-> ~(Truthy(docker) /\ Truthy(server))]

MemoryLimits == {0} \cup {2 ^ k : k \in 0..MaxMemoryExp}
Responses ==
  {None, Some([data |-> None]), Some([data |-> Some([memory_limit |-> None])])}
    \cup {Some([data |-> Some([memory_limit |-> Some(n)])]) : n \in MemoryLimits}

\* observer: one more entry into Ready when the gate opens
Entered(before, after, n) ==
  IF before.nextDisabled /\ ~after.nextDisabled /\ n < MaxReentries
    THEN n + 1 ELSE n

\* the screen before any probe has resolved: the parent has issued one probe
\* of each kind and supplies no value yet
MountSystemCheck(loading, resp, probes) ==
  /\ isDockerRunning = None
  /\ isServerRunning = None
  /\ isLoading = loading
  /\ response = resp
  /\ screen = SystemCheck(None, None, loading, resp)
  /\ dockerProbes = probes
  /\ serverProbes = probes
  /\ readyEntries = 0

\* a Docker probe resolves: the parent stores its result and re-renders
ResolveDockerProbe(b) ==
  /\ dockerProbes > 0
  /\ dockerProbes' = dockerProbes - 1
  /\ isDockerRunning' = Some(b)
  /\ screen' = SystemCheck(Some(b), isServerRunning, isLoading, response)
  /\ readyEntries' = Entered(screen, screen', readyEntries)
  /\ event' = "docker"
  /\ UNCHANGED <<isServerRunning, isLoading, response, serverProbes>>
  /\ UNCHANGED cardVars

\* a Daemon probe resolves: the parent stores its result and re-renders
ResolveServerProbe(b) ==
  /\ serverProbes > 0
  /\ serverProbes' = serverProbes - 1
  /\ isServerRunning' = Some(b)
  /\ screen' = SystemCheck(isDockerRunning, Some(b), isLoading, response)
  /\ readyEntries' = Entered(screen, screen', readyEntries)
  /\ event' = "server"
  /\ UNCHANGED <<isDockerRunning, isLoading, response, dockerProbes>>
  /\ UNCHANGED cardVars

\* the parent's re-check: one more probe in flight; it does not wait for it
handleCheckIsDockerRunning(probes) == probes + 1

\* "Check Again": onClick={() => handleCheckIsDockerRunning()} starts a new
\* check and returns; nothing the screen renders from has changed
CheckAgain ==
  /\ dockerProbes < MaxInFlight
  /\ serverProbes < MaxInFlight
  /\ dockerProbes' = handleCheckIsDockerRunning(dockerProbes)
  /\ serverProbes' = handleCheckIsDockerRunning(serverProbes)
  /\ screen' = SystemCheck(isDockerRunning, isServerRunning, isLoading, response)
  /\ event' = "check"
  /\ UNCHANGED <<isDockerRunning, isServerRunning, isLoading, response, readyEntries>>
  /\ UNCHANGED cardVars

\* the system-stats query changes what useSystemStats returns; re-render
SystemStats(loading, resp) ==
  /\ isLoading' = loading
  /\ response' = resp
  /\ screen' = SystemCheck(isDockerRunning, isServerRunning, loading, resp)
  /\ event' = "stats"
  /\ UNCHANGED <<isDockerRunning, isServerRunning, dockerProbes, serverProbes,
                 readyEntries>>
  /\ UNCHANGED cardVars

\* ========================================================= specifications

CardDeclared == {None, Some(<<"a", "c">>)}
CardCollections == {None, Some(Collection(<<"a", "b", "c">>))}
CardIdle == Mount([id |-> "svc1", serviceType |-> None, interfaces |-> None],
                  "running", None)
SystemCheckIdle == MountSystemCheck(TRUE, None, 0)

\* the life of one ServiceCard
Init ==
  /\ \E svc \in Services(CardDeclared), st \in Statuses, data \in CardCollections :
       Mount(svc, st, data)
  /\ SystemCheckIdle
  /\ event = "mount"

Next ==
  \/ \E svc \in Services(CardDeclared), st \in Statuses, data \in CardCollections :
       Rerender(svc, st, data)
  \/ Click
  \/ CloseWarningModal
  \/ Refetch

Spec == Init /\ [][Next]_vars

\* interface resolution over every declared list and every collection
InterfaceLists == {None} \cup {Some(l) : l \in SeqsUpTo(InterfaceIds, MaxDeclared)}
InterfaceCollections ==
  {None} \cup {Some(Collection(l)) : l \in SeqsUpTo(InterfaceIds, MaxCollection)}
InterfaceServices == [id : {"svc1"}, serviceType : {None}, interfaces : InterfaceLists]

InitInterfaces ==
  /\ \E svc \in InterfaceServices, data \in InterfaceCollections :
       Mount(svc, "running", data)
  /\ SystemCheckIdle
  /\ event = "mount"

\* a re-render follows a change of the service prop or of the collection
NextInterfaces ==
  \/ \E svc \in InterfaceServices : Rerender(svc, status, interfaces)
  \/ \E data \in InterfaceCollections : Rerender(service, status, data)

SpecInterfaces == InitInterfaces /\ [][NextInterfaces]_vars

\* the life of one SystemCheck screen
InitSystemCheck ==
  /\ \E loading \in BOOLEAN, resp \in Responses : MountSystemCheck(loading, resp, 1)
  /\ CardIdle
  /\ event = "mount"

NextSystemCheck ==
  \/ \E b \in BOOLEAN : ResolveDockerProbe(b)
  \/ \E b \in BOOLEAN : ResolveServerProbe(b)
  \/ CheckAgain
  \/ \E loading \in BOOLEAN, resp \in Responses : SystemStats(loading, resp)

SpecSystemCheck == InitSystemCheck /\ [][NextSystemCheck]_vars

\* ================================================================= claims

BothRunning == isDockerRunning = Some(TRUE) /\ isServerRunning = Some(TRUE)

\* C1: whatever the two props, the memory loading flag and the memory_limit
\* value are, Next is enabled if and only if isDockerRunning and
\* isServerRunning are both true.
C1_NextEnabledIffBothRunning ==
  /\ screen.nextDisabled = ~BothRunning
  /\ \A loading \in BOOLEAN, resp \in Responses :
       SystemCheck(isDockerRunning, isServerRunning, loading, resp).nextDisabled
         = screen.nextDisabled

\* Next is enabled while the memory probe is still loading and has no value
C1_Witness ==
  /\ event = "stats"
  /\ BothRunning
  /\ isLoading
  /\ response = None
  /\ ~screen.nextDisabled

\* the service type segment of the detail path
TypeSegmentNullish == IF service.serviceType = None THEN "docker" ELSE service.serviceType[1]
TypeSegmentFalsy ==
  IF service.serviceType = None \/ service.serviceType = Some("")
    THEN "docker" ELSE service.serviceType[1]

\* C2 (amended): the redirect target is "/" when the status is coming_soon;
\* otherwise it is /services/{id}/{t}/detail where t is the declared
\* serviceType, or "docker" when serviceType is undefined; an empty
\* serviceType is kept as it is.
C2_RedirectTarget ==
  /\ status = "coming_soon" => card.to = "/"
  /\ status # "coming_soon" =>
       card.to = "/services/" \o service.id \o "/" \o TypeSegmentNullish \o "/detail"
  /\ status # "coming_soon" /\ service.id = "svc2" /\ service.serviceType = None =>
       card.to = "/services/svc2/docker/detail"

\* a running service with an empty serviceType keeps the empty segment
C2_Witness ==
  /\ status = "running"
  /\ service.id = "svc1"
  /\ service.serviceType = Some("")
  /\ card.to = "/services/svc1//detail"

\* C2 as stated: t is serviceType || "docker", so "docker" also replaces an
\* empty serviceType.
C2_Original ==
  /\ status = "coming_soon" => card.to = "/"
  /\ status # "coming_soon" =>
       card.to = "/services/" \o service.id \o "/" \o TypeSegmentFalsy \o "/detail"

\* C3: on every click, if checkIfAccessible of the current status is false
\* the default navigation is suppressed and the warning is opened; if it is
\* true the warning flag keeps its value and the link navigates to the
\* redirect target.
C3_ClickInterception ==
  [][event' = "click" =>
       IF ~checkIfAccessible(status)
         THEN /\ lastClick'.defaultPrevented
              /\ lastClick'.navigated = None
              /\ isWarningModalOpen'
         ELSE /\ ~lastClick'.defaultPrevented
              /\ lastClick'.navigated = Some(redirectLink(service, status))
              /\ isWarningModalOpen' = isWarningModalOpen]_vars

\* an accessible card was clicked while the warning was open: it navigated
\* and the warning stayed open
C3_Witness ==
  /\ event = "click"
  /\ checkIfAccessible(status)
  /\ isWarningModalOpen
  /\ ~lastClick.defaultPrevented
  /\ lastClick.navigated = Some(card.to)

\* C4: for a service whose status is coming_soon the gate is false, the
\* redirect target is "/", and a click is intercepted: the warning is open
\* and nothing was navigated to.
C4_ComingSoon ==
  status = "coming_soon" =>
    /\ ~card.isAccessible
    /\ card.to = "/"
    /\ event = "click" =>
         /\ lastClick.defaultPrevented
         /\ lastClick.navigated = None
         /\ isWarningModalOpen

\* a coming_soon card was clicked
C4_Witness ==
  /\ status = "coming_soon"
  /\ event = "click"
  /\ lastClick.defaultPrevented
  /\ card.to = "/"

Range(f) == {f[k] : k \in DOMAIN f}
StrictlyIncreasing(f) == \A i, j \in DOMAIN f : i < j => f[i] < f[j]

\* C5: the interfaces passed on are exactly the elements of the collection
\* whose id is in the service's list, in the collection's order; the empty
\* list when the service has no list or the collection is undefined.
C5_InterfaceResolution ==
  LET coll == NullishOr(interfaces, <<>>)
      declared == IF service.interfaces = None THEN {} ELSE Range(service.interfaces[1])
      keep == {k \in 1..Len(coll) : coll[k].id \in declared}
      res == card.interfaces
  IN  /\ Len(res) = Cardinality(keep)
      /\ \E f \in [1..Len(res) -> keep] :
           /\ StrictlyIncreasing(f)
           /\ \A j \in 1..Len(res) : res[j] = coll[f[j]]
      /\ service.interfaces = None => res = <<>>
      /\ interfaces = None => res = <<>>
      /\ (service.interfaces = Some(<<"a", "c">>)
            /\ interfaces = Some(Collection(<<"a", "b", "c">>)))
           => res = <<[id |-> "a"], [id |-> "c"]>>

\* the service lists c before a; the result follows the collection
C5_Witness ==
  /\ event = "render"
  /\ service.interfaces = Some(<<"c", "a">>)
  /\ interfaces = Some(Collection(<<"a", "b", "c">>))
  /\ card.interfaces = <<[id |-> "a"], [id |-> "c"]>>

\* C6: every invocation of refetch issues a refetch of the services
\* collection and an invalidation of the entry keyed by the id of the
\* service the card currently shows.
C6_RefreshTargetsCurrentService ==
  event = "refetch" =>
    /\ Len(queryCalls) >= 2
    /\ queryCalls[Len(queryCalls) - 1] = RefetchCall
    /\ queryCalls[Len(queryCalls)] = InvalidateCall(service.id)

Count(calls, op) == Cardinality({k \in 1..Len(calls) : calls[k].op = op})

\* C7: n invocations of refetch have issued exactly n refetch requests and n
\* invalidations, and an invocation changes no state of the component.
C7_RefreshCounts ==
  /\ [](/\ Count(queryCalls, "refetchQueries") = refreshCount
        /\ Count(queryCalls, "invalidateQueries") = refreshCount
        /\ Len(queryCalls) = 2 * refreshCount)
  /\ [][event' = "refetch" =>
          /\ refreshCount' = refreshCount + 1
          /\ UNCHANGED <<isWarningModalOpen, refetchServiceId, card>>]_vars

\* refetch was invoked twice in a row
C7_Witness ==
  /\ event = "refetch"
  /\ refreshCount = 2
  /\ queryCalls = <<RefetchCall, InvalidateCall(refetchServiceId),
                    RefetchCall, InvalidateCall(refetchServiceId)>>

\* C8 (amended): the memory string is the memory_limit number followed by
\* "GiB" when the response carries a non-zero memory_limit, and the empty
\* string when memory_limit is 0 or undefined or the response has not loaded.
C8_MemoryLimitString ==
  LET m == MemoryLimitOf(response) IN
  /\ m # None /\ m # Some(0) =>
       screen.memory.status = NumberToString(m[1]) \o "GiB"
  /\ m = None \/ m = Some(0) => screen.memory.status = ""
  /\ m = Some(8) => screen.memory.status = "8GiB"
  /\ m = Some(16) => screen.memory.status = "16GiB"

\* a response carrying memory_limit 8 is shown as "8GiB"
C8_Witness ==
  /\ event = "stats"
  /\ response = Some([data |-> Some([memory_limit |-> Some(8)])])
  /\ screen.memory.status = "8GiB"

\* C8 as stated: every memory_limit value n the response carries is shown
\* as n followed by "GiB".
C8_Original ==
  LET m == MemoryLimitOf(response) IN
  /\ m # None => screen.memory.status = NumberToString(m[1]) \o "GiB"
  /\ m = None => screen.memory.status = ""

Unknown == isDockerRunning = None /\ isServerRunning = None
GateState == IF ~screen.nextDisabled THEN "Ready"
             ELSE IF Unknown THEN "Unknown" ELSE "NotReady"

\* C9: before any probe has resolved progression is disabled; after every
\* step the gate is Ready exactly when both latest values are true, whatever
\* the gate was before the step, and NotReady when a value is loaded and one
\* of the two is not true.
C9_GateStateMachine ==
  /\ [](Unknown => GateState = "Unknown" /\ screen.nextDisabled)
  /\ [][/\ GateState' = "Ready" <=> BothRunning'
        /\ GateState' = "NotReady" <=> ~Unknown' /\ ~BothRunning']_vars

\* the gate is Ready for the second time, having been NotReady in between
C9_Witness ==
  /\ readyEntries = 2
  /\ GateState = "Ready"

\* C10: "Check Again" changes nothing that is displayed, however many checks
\* are in flight, and the rows and the gate always show the values the most
\* recently resolved probes stored.
C10_LastResolvedWins ==
  /\ [](/\ screen.docker.isRunning = isDockerRunning
        /\ screen.docker.status = (IF isDockerRunning = Some(TRUE) THEN "Found" ELSE "Not Found")
        /\ screen.daemon.isRunning = isServerRunning
        /\ screen.daemon.status = (IF isServerRunning = Some(TRUE) THEN "Running" ELSE "Not Running")
        /\ screen.nextDisabled = ~BothRunning)
  /\ [][event' = "check" => screen' = screen]_vars

\* a second check was started while the first was in flight, and a probe
\* has resolved to false since
C10_Witness ==
  /\ event = "server"
  /\ dockerProbes = MaxInFlight
  /\ isServerRunning = Some(FALSE)
  /\ screen.daemon.status = "Not Running"
  /\ screen.docker.status = "Not Found"

====
